---- MODULE Spec2Model ----
(***************************************************************************)
(* Market Mood dashboard (src/app.py): one Streamlit script run per        *)
(* session.  A run fetches prices and news for a ticker, scores every      *)
(* headline, averages the scores, and renders two metrics, a chart and a   *)
(* news table; any exception ends the run with one error message.          *)
(*                                                                         *)
(* Python floats are modelled as binary floating-point numbers with        *)
(* MantBits significant bits and round-half-even, stored as integers in    *)
(* units of 2^-GridBits.  The literal 0.1, the polarities, the additions   *)
(* of sum() and the division by len() all round as the interpreter does,   *)
(* only with a shorter significand than binary64.                          *)
(***************************************************************************)
EXTENDS Integers, Sequences, FiniteSets, TLC

\* Bounds of the model.
MantBits == 9
MaxNews == 3

----------------------------------------------------------------------------
(* Floating point *)

RECURSIVE Pow2(_)
Pow2(k) == IF k <= 0 THEN 1 ELSE 2 * Pow2(k - 1)

RECURSIVE BitLen(_)
BitLen(a) == IF a = 0 THEN 0 ELSE 1 + BitLen(a \div 2)

Abs(x) == IF x < 0 THEN -x ELSE x

Sign(x) == IF x < 0 THEN -1 ELSE 1

\* Every value that occurs (polarities of magnitude >= 1/16, sums of at most
\* MaxNews of them, their quotient by the count) is a multiple of 2^-GridBits.
GridBits == 2 * MantBits + MaxNews + 2

One == Pow2(GridBits)

\* The float nearest to num/den (num >= 0, den > 0, num in grid units):
\* MantBits significant bits, ties to even.
RoundRatio(num, den) ==
    LET quot == num \div den
        k == IF BitLen(quot) > MantBits THEN BitLen(quot) - MantBits ELSE 0
        q == Pow2(k)
        m == num \div (den * q)
        rem == num - m * den * q
        up == \/ 2 * rem > den * q
              \/ 2 * rem = den * q /\ m % 2 = 1
    IN (IF up THEN m + 1 ELSE m) * q

\* x + y of two floats.
FAdd(x, y) == Sign(x + y) * RoundRatio(Abs(x + y), 1)

\* x / n of a float by a positive int.
FDiv(x, n) == Sign(x) * RoundRatio(Abs(x), n)

\* The float a decimal literal num/den denotes.
FloatLiteral(num, den) == Sign(num) * RoundRatio(Abs(num) * One, den)

\* sum() as CPython up to 3.11 computes it: left to right, one rounding per
\* addition (the int start value 0 plus the first float is that float).
RECURSIVE NaiveSum(_, _, _)
NaiveSum(xs, i, acc) ==
    IF i > Len(xs) THEN acc ELSE NaiveSum(xs, i + 1, FAdd(acc, xs[i]))

\* sum() as CPython from 3.12 computes it: Neumaier's compensated summation,
\* the compensation c added once at the end.
RECURSIVE CompensatedSum(_, _, _, _)
CompensatedSum(xs, i, acc, c) ==
    IF i > Len(xs)
    THEN (IF c # 0 THEN FAdd(acc, c) ELSE acc)
    ELSE LET x == xs[i]
             t == FAdd(acc, x)
             d == IF Abs(acc) >= Abs(x)
                  THEN FAdd(FAdd(acc, -t), x)
                  ELSE FAdd(FAdd(x, -t), acc)
         IN CompensatedSum(xs, i + 1, t, FAdd(c, d))

SumAlgos == {"naive", "compensated"}

Sum(xs, algo) ==
    IF algo = "naive" THEN NaiveSum(xs, 1, 0) ELSE CompensatedSum(xs, 1, 0, 0)

\* Mean with the count off by one.
MeanOffByOne(xs, algo) ==
    IF xs = <<>> THEN 0 ELSE FDiv(Sum(xs, algo), Len(xs) + 1)

\* Mean without the division.
MeanNoDivision(xs, algo) == IF xs = <<>> THEN 0 ELSE Sum(xs, algo)

\* sum(sentiments) / len(sentiments) if sentiments else 0
Mean(xs, algo) == IF xs = <<>> THEN 0 ELSE FDiv(Sum(xs, algo), Len(xs))

\* The literal 0.1 of the label thresholds.
Threshold == FloatLiteral(1, 10)

\* SentimentLabel with inclusive thresholds.
SentimentLabelInclusive(avg) ==
    IF avg >= Threshold THEN "Positive"
    ELSE IF avg <= -Threshold THEN "Negative"
    ELSE "Neutral"

SentimentLabel(avg) ==
    IF avg > Threshold THEN "Positive"
    ELSE IF avg < -Threshold THEN "Negative"
    ELSE "Neutral"

color_sentiment(val) ==
    IF val > 0 THEN "green" ELSE IF val < 0 THEN "red" ELSE "grey"

----------------------------------------------------------------------------
(* Data *)

Sessions == {"s1", "s2"}

Tickers == {"TSLA", "XXXX"}

\* News items are dicts whose 'title' and 'link' keys may be missing.
EmptyDict == [k \in {} |-> ""]

Items == {EmptyDict, ("title" :> "a") @@ ("link" :> "u"), ("title" :> "b")}

DictGet(d, k, default) == IF k \in DOMAIN d THEN d[k] ELSE default

Titles == {DictGet(it, "title", "") : it \in Items}

NewsLists(items, maxLen) == UNION {[1..n -> items] : n \in 0..maxLen}

\* stock_df as its Close column.
PriceSeries == {<<>>, <<100, 105>>}

\* What yf.Ticker(symbol).history / .news can do: raise, or return a price
\* series (empty for an unknown ticker) and a news list.
Outcomes(items, maxLen) ==
    {[raises |-> TRUE, data |-> <<>>, news |-> <<>>]} \cup
    {[raises |-> FALSE, data |-> d, news |-> n] :
        d \in PriceSeries, n \in NewsLists(items, maxLen)}

\* TextBlob(title).sentiment.polarity: a float in [-1, 1], or an exception.
PolTenths == {-3, -1, 1, 10}

Polarities == {FloatLiteral(k, 10) : k \in PolTenths}

ScoreResults ==
    {[raises |-> FALSE, polarity |-> p] : p \in Polarities} \cup
    {[raises |-> TRUE, polarity |-> 0]}

Scorers == [Titles -> ScoreResults]

\* NewsRecord with title and link exchanged.
NewsRecordSwapped(title, polarity, link) ==
    [Title |-> link, Score |-> polarity, Link |-> title]

NewsRecord(title, polarity, link) ==
    [Title |-> title, Score |-> polarity, Link |-> link]

\* pd.DataFrame() and pd.DataFrame(news_data)
EmptyFrame == [columns |-> {}, rows |-> <<>>]

\* return 0, pd.DataFrame(), with a mid-scale default for the score.
EmptyAnalysisHalf == [avg |-> FloatLiteral(5, 10), frame |-> EmptyFrame]

\* return 0, pd.DataFrame()
EmptyAnalysis == [avg |-> 0, frame |-> EmptyFrame]

DataFrame(records) ==
    IF records = <<>> THEN EmptyFrame
    ELSE [columns |-> {"Title", "Sentiment Score", "Link"}, rows |-> records]

ErrorMessage(ticker) ==
    [text |-> "Error: Could not find data for {ticker_symbol}. Please check the ticker symbol.",
     ticker |-> ticker]

Element(kind, payload) == [kind |-> kind, payload |-> payload]

StyledRows(rows) ==
    [i \in DOMAIN rows |->
        [Title |-> rows[i].Title, Score |-> rows[i].Score,
         color |-> color_sentiment(rows[i].Score)]]

----------------------------------------------------------------------------
(* State *)

VARIABLES
    scorer,          \* the scoring capability: title -> score result
    sumAlgo,         \* which sum() the interpreter has
    pc,              \* position of each session's script run
    ticker_symbol, stock_df, stock_news,
    idx, sentiments, news_data,      \* analyze_sentiment's loop and lists
    avg_score, news_df, sentiment_label,
    rendered,        \* dashboard elements shown so far, in order
    errors,          \* st.error messages shown so far
    exc,             \* the exception raised in this run, "" if none
    scoreCalls       \* titles handed to the scoring capability in this run

vars == <<scorer, sumAlgo, pc, ticker_symbol, stock_df, stock_news, idx,
          sentiments, news_data, avg_score, news_df, sentiment_label,
          rendered, errors, exc, scoreCalls>>

env == <<scorer, sumAlgo>>

InitRun ==
    /\ pc = [s \in Sessions |-> "idle"]
    /\ ticker_symbol = [s \in Sessions |-> ""]
    /\ stock_df = [s \in Sessions |-> <<>>]
    /\ stock_news = [s \in Sessions |-> <<>>]
    /\ idx = [s \in Sessions |-> 0]
    /\ sentiments = [s \in Sessions |-> <<>>]
    /\ news_data = [s \in Sessions |-> <<>>]
    /\ avg_score = [s \in Sessions |-> 0]
    /\ news_df = [s \in Sessions |-> EmptyFrame]
    /\ sentiment_label = [s \in Sessions |-> ""]
    /\ rendered = [s \in Sessions |-> <<>>]
    /\ errors = [s \in Sessions |-> <<>>]
    /\ exc = [s \in Sessions |-> ""]
    /\ scoreCalls = [s \in Sessions |-> <<>>]

Init ==
    /\ scorer \in Scorers
    /\ sumAlgo \in SumAlgos
    /\ InitRun

----------------------------------------------------------------------------
(* One script run *)

\* line 20 and line 59: the sidebar's ticker; an empty one skips the run.
Submit(s, tickers) ==
    /\ pc[s] = "idle"
    /\ \E t \in tickers \cup {""} :
        /\ ticker_symbol' = [ticker_symbol EXCEPT ![s] = t]
        /\ pc' = [pc EXCEPT ![s] = IF t = "" THEN "done" ELSE "fetch"]
    /\ UNCHANGED <<env, stock_df, stock_news, idx, sentiments, news_data,
                   avg_score, news_df, sentiment_label, rendered, errors,
                   exc, scoreCalls>>

\* line 63
get_stock_data(s, outcomes) ==
    /\ pc[s] = "fetch"
    /\ \E o \in outcomes :
        IF o.raises
        THEN /\ exc' = [exc EXCEPT ![s] = "FetchError"]
             /\ pc' = [pc EXCEPT ![s] = "except"]
             /\ UNCHANGED <<stock_df, stock_news>>
        ELSE /\ stock_df' = [stock_df EXCEPT ![s] = o.data]
             /\ stock_news' = [stock_news EXCEPT ![s] = o.news]
             /\ pc' = [pc EXCEPT ![s] = "analyze"]
             /\ UNCHANGED exc
    /\ UNCHANGED <<env, ticker_symbol, idx, sentiments, news_data, avg_score,
                   news_df, sentiment_label, rendered, errors, scoreCalls>>

\* lines 36-37 (and the assignment of line 64)
AnalyzeEmpty(s) ==
    /\ pc[s] = "analyze"
    /\ stock_news[s] = <<>>
    /\ avg_score' = [avg_score EXCEPT ![s] = EmptyAnalysis.avg]
    /\ news_df' = [news_df EXCEPT ![s] = EmptyAnalysis.frame]
    /\ pc' = [pc EXCEPT ![s] = "price_metric"]
    /\ UNCHANGED <<env, ticker_symbol, stock_df, stock_news, idx, sentiments,
                   news_data, sentiment_label, rendered, errors, exc,
                   scoreCalls>>

\* AnalyzeBegin with the two lists kept from the call before.
AnalyzeBeginKeep(s) ==
    /\ pc[s] = "analyze"
    /\ stock_news[s] # <<>>
    /\ idx' = [idx EXCEPT ![s] = 1]
    /\ pc' = [pc EXCEPT ![s] = "loop"]
    /\ UNCHANGED <<env, ticker_symbol, stock_df, stock_news, sentiments,
                   news_data, avg_score, news_df, sentiment_label, rendered,
                   errors, exc, scoreCalls>>

\* lines 39-40
AnalyzeBegin(s) ==
    /\ pc[s] = "analyze"
    /\ stock_news[s] # <<>>
    /\ sentiments' = [sentiments EXCEPT ![s] = <<>>]
    /\ news_data' = [news_data EXCEPT ![s] = <<>>]
    /\ idx' = [idx EXCEPT ![s] = 1]
    /\ pc' = [pc EXCEPT ![s] = "loop"]
    /\ UNCHANGED <<env, ticker_symbol, stock_df, stock_news, avg_score,
                   news_df, sentiment_label, rendered, errors, exc,
                   scoreCalls>>

\* lines 42-52, one iteration
AnalyzeItem(s) ==
    /\ pc[s] = "loop"
    /\ idx[s] <= Len(stock_news[s])
    /\ LET item == stock_news[s][idx[s]]
           title == DictGet(item, "title", "")
           link == DictGet(item, "link", "")
           blob == scorer[title]
       IN /\ scoreCalls' = [scoreCalls EXCEPT ![s] = Append(@, title)]
          /\ IF blob.raises
             THEN /\ exc' = [exc EXCEPT ![s] = "ScoringError"]
                  /\ pc' = [pc EXCEPT ![s] = "except"]
                  /\ UNCHANGED <<sentiments, news_data, idx>>
             ELSE /\ sentiments' =
                        [sentiments EXCEPT ![s] = Append(@, blob.polarity)]
                  /\ news_data' =
                        [news_data EXCEPT
                            ![s] = Append(@, NewsRecord(title, blob.polarity, link))]
                  /\ idx' = [idx EXCEPT ![s] = @ + 1]
                  /\ UNCHANGED <<exc, pc>>
    /\ UNCHANGED <<env, ticker_symbol, stock_df, stock_news, avg_score,
                   news_df, sentiment_label, rendered, errors>>

\* lines 54-55 (and the assignment of line 64)
AnalyzeReturn(s) ==
    /\ pc[s] = "loop"
    /\ idx[s] > Len(stock_news[s])
    /\ avg_score' = [avg_score EXCEPT ![s] = Mean(sentiments[s], sumAlgo)]
    /\ news_df' = [news_df EXCEPT ![s] = DataFrame(news_data[s])]
    /\ pc' = [pc EXCEPT ![s] = "price_metric"]
    /\ UNCHANGED <<env, ticker_symbol, stock_df, stock_news, idx, sentiments,
                   news_data, sentiment_label, rendered, errors, exc,
                   scoreCalls>>

\* PriceMetric showing a placeholder price for an empty frame.
PriceMetricNoCheck(s) ==
    /\ pc[s] = "price_metric"
    /\ rendered' =
            [rendered EXCEPT
                ![s] = Append(@, Element("price_metric",
                                         IF stock_df[s] = <<>> THEN 0
                                         ELSE stock_df[s][Len(stock_df[s])]))]
    /\ pc' = [pc EXCEPT ![s] = "sentiment_metric"]
    /\ UNCHANGED <<env, ticker_symbol, stock_df, stock_news, idx, sentiments,
                   news_data, avg_score, news_df, sentiment_label, errors,
                   exc, scoreCalls>>

\* lines 70-71: stock_df['Close'].iloc[-1] raises on an empty frame
PriceMetric(s) ==
    /\ pc[s] = "price_metric"
    /\ IF stock_df[s] = <<>>
       THEN /\ exc' = [exc EXCEPT ![s] = "LookupError"]
            /\ pc' = [pc EXCEPT ![s] = "except"]
            /\ UNCHANGED rendered
       ELSE /\ rendered' =
                [rendered EXCEPT
                    ![s] = Append(@, Element("price_metric",
                                             stock_df[s][Len(stock_df[s])]))]
            /\ pc' = [pc EXCEPT ![s] = "sentiment_metric"]
            /\ UNCHANGED exc
    /\ UNCHANGED <<env, ticker_symbol, stock_df, stock_news, idx, sentiments,
                   news_data, avg_score, news_df, sentiment_label, errors,
                   scoreCalls>>

\* lines 75-82
SentimentMetric(s) ==
    /\ pc[s] = "sentiment_metric"
    /\ sentiment_label' =
            [sentiment_label EXCEPT ![s] = SentimentLabel(avg_score[s])]
    /\ rendered' =
            [rendered EXCEPT
                ![s] = Append(@, Element("sentiment_metric",
                                         <<SentimentLabel(avg_score[s]),
                                           avg_score[s]>>))]
    /\ pc' = [pc EXCEPT ![s] = "price_chart"]
    /\ UNCHANGED <<env, ticker_symbol, stock_df, stock_news, idx, sentiments,
                   news_data, avg_score, news_df, errors, exc, scoreCalls>>

\* lines 85-88
PriceChart(s) ==
    /\ pc[s] = "price_chart"
    /\ rendered' =
            [rendered EXCEPT ![s] = Append(@, Element("price_chart", stock_df[s]))]
    /\ pc' = [pc EXCEPT ![s] = "news_table"]
    /\ UNCHANGED <<env, ticker_symbol, stock_df, stock_news, idx, sentiments,
                   news_data, avg_score, news_df, sentiment_label, errors,
                   exc, scoreCalls>>

\* lines 91-102: news_df[['Title', 'Sentiment Score']] raises KeyError when
\* the frame has no such columns
NewsTable(s) ==
    /\ pc[s] = "news_table"
    /\ IF {"Title", "Sentiment Score"} \subseteq news_df[s].columns
       THEN /\ rendered' =
                [rendered EXCEPT
                    ![s] = Append(@, Element("news_table",
                                             StyledRows(news_df[s].rows)))]
            /\ pc' = [pc EXCEPT ![s] = "done"]
            /\ UNCHANGED exc
       ELSE /\ exc' = [exc EXCEPT ![s] = "KeyError"]
            /\ pc' = [pc EXCEPT ![s] = "except"]
            /\ UNCHANGED rendered
    /\ UNCHANGED <<env, ticker_symbol, stock_df, stock_news, idx, sentiments,
                   news_data, avg_score, news_df, sentiment_label, errors,
                   scoreCalls>>

\* lines 104-105
Except(s) ==
    /\ pc[s] = "except"
    /\ errors' = [errors EXCEPT ![s] = Append(@, ErrorMessage(ticker_symbol[s]))]
    /\ pc' = [pc EXCEPT ![s] = "done"]
    /\ UNCHANGED <<env, ticker_symbol, stock_df, stock_news, idx, sentiments,
                   news_data, avg_score, news_df, sentiment_label, rendered,
                   exc, scoreCalls>>

Run(s, tickers, outcomes) ==
    \/ Submit(s, tickers)
    \/ get_stock_data(s, outcomes)
    \/ AnalyzeEmpty(s)
    \/ AnalyzeBegin(s)
    \/ AnalyzeItem(s)
    \/ AnalyzeReturn(s)
    \/ PriceMetric(s)
    \/ SentimentMetric(s)
    \/ PriceChart(s)
    \/ NewsTable(s)
    \/ Except(s)

\* One request of one session.
Next == Run("s1", Tickers, Outcomes(Items, MaxNews))

Spec == Init /\ [][Next]_vars

----------------------------------------------------------------------------
(* Several sessions, each rerunning the script *)

\* A Streamlit rerun executes the script from the top: the page is cleared
\* and every script-level name is rebound.  The lists of analyze_sentiment
\* are created by lines 39-40 only.
Rerun(s) ==
    /\ pc[s] = "done"
    /\ pc' = [pc EXCEPT ![s] = "idle"]
    /\ ticker_symbol' = [ticker_symbol EXCEPT ![s] = ""]
    /\ stock_df' = [stock_df EXCEPT ![s] = <<>>]
    /\ stock_news' = [stock_news EXCEPT ![s] = <<>>]
    /\ avg_score' = [avg_score EXCEPT ![s] = 0]
    /\ news_df' = [news_df EXCEPT ![s] = EmptyFrame]
    /\ sentiment_label' = [sentiment_label EXCEPT ![s] = ""]
    /\ rendered' = [rendered EXCEPT ![s] = <<>>]
    /\ errors' = [errors EXCEPT ![s] = <<>>]
    /\ exc' = [exc EXCEPT ![s] = ""]
    /\ scoreCalls' = [scoreCalls EXCEPT ![s] = <<>>]
    /\ UNCHANGED <<env, idx, sentiments, news_data>>

SessionItems == {EmptyDict, ("title" :> "a") @@ ("link" :> "u")}

SessionOutcomes ==
    {o \in Outcomes(SessionItems, MaxNews - 1) : ~o.raises /\ o.data # <<>>}

SessionPolarities == {FloatLiteral(-3, 10), FloatLiteral(10, 10)}

SessionScorers ==
    {f \in Scorers :
        /\ \A t \in Titles : ~f[t].raises /\ f[t].polarity \in SessionPolarities
        /\ f["b"] = f["a"]}

InitSessions ==
    /\ scorer \in SessionScorers
    /\ sumAlgo \in SumAlgos
    /\ InitRun

NextSessions ==
    \E s \in Sessions :
        \/ Run(s, {"TSLA"}, SessionOutcomes)
        \/ Rerun(s)

SpecSessions == InitSessions /\ [][NextSessions]_vars

----------------------------------------------------------------------------
(* Properties *)

\* analyze_sentiment has returned in the current run of session s.
Aggregated(s) ==
    \/ pc[s] \in {"price_metric", "sentiment_metric", "price_chart", "news_table"}
    \/ pc[s] \in {"except", "done"} /\ exc[s] \in {"LookupError", "KeyError"}
    \/ pc[s] = "done" /\ exc[s] = "" /\ ticker_symbol[s] # ""

TitleOf(item) == IF "title" \in DOMAIN item THEN item["title"] ELSE ""

LinkOf(item) == IF "link" \in DOMAIN item THEN item["link"] ELSE ""

\* The polarities the scoring capability gives the headlines of a news list.
ScoresOf(news) == [i \in DOMAIN news |-> scorer[TitleOf(news[i])].polarity]

RECURSIVE ExactSum(_, _)
ExactSum(xs, i) == IF i > Len(xs) THEN 0 ELSE xs[i] + ExactSum(xs, i + 1)

\* 2^-MantBits, the unit roundoff, in grid units.
UnitRoundoff == Pow2(GridBits - MantBits)

\* Floating-point tolerance for the mean of n values of magnitude at most 1.
Tolerance(n) == n * UnitRoundoff

Permuted(xs) ==
    {[i \in DOMAIN xs |-> xs[f[i]]] :
        f \in {g \in [DOMAIN xs -> DOMAIN xs] :
                  \A i, j \in DOMAIN xs : g[i] = g[j] => i = j}}

\* C1: for a non-empty news list the list of scores holds exactly the score
\* of each item's headline, one per item in order, and the average returned
\* is their arithmetic mean within floating-point tolerance.
C1_AverageIsMean ==
    \A s \in Sessions :
        Aggregated(s) /\ stock_news[s] # <<>> =>
            LET n == Len(stock_news[s])
                p == ScoresOf(stock_news[s])
            IN /\ sentiments[s] = p
               /\ Abs(n * avg_score[s] - ExactSum(p, 1)) <= n * Tolerance(n)

C1_Witness ==
    \E s \in Sessions :
        /\ Aggregated(s)
        /\ Len(stock_news[s]) >= 3
        /\ Cardinality({sentiments[s][i] : i \in DOMAIN sentiments[s]}) >= 3
        /\ avg_score[s] # 0

\* C2: for an empty news list the average is exactly 0, no headline record
\* is produced, the scoring capability is not called, and the label derived
\* from the result is Neutral.
C2_EmptyNewsIsZeroNeutral ==
    \A s \in Sessions :
        Aggregated(s) /\ stock_news[s] = <<>> =>
            /\ avg_score[s] = 0
            /\ news_df[s].rows = <<>>
            /\ scoreCalls[s] = <<>>
            /\ SentimentLabel(avg_score[s]) = "Neutral"
            /\ sentiment_label[s] \in {"", "Neutral"}

C2_Witness ==
    \E s \in Sessions :
        /\ Aggregated(s)
        /\ stock_news[s] = <<>>
        /\ sentiment_label[s] = "Neutral"
        /\ avg_score[s] = 0

C4_EmptyNewsIsNoError ==
    \A s \in Sessions :
        Aggregated(s) /\ stock_news[s] = <<>> /\ stock_df[s] # <<>> =>
            exc[s] = "" /\ errors[s] = <<>>

\* What a request for ticker t shows when the market-data fetch fails.
FetchFailureView(t) == [rendered |-> <<>>, errors |-> <<ErrorMessage(t)>>]

\* C5: a request that ended by a failure of the scoring capability shows
\* something else than a request whose market-data fetch failed.
C5_ScoringFailureDistinguishable ==
    \A s \in Sessions :
        pc[s] = "done" /\ exc[s] = "ScoringError" =>
            [rendered |-> rendered[s], errors |-> errors[s]]
                # FetchFailureView(ticker_symbol[s])

\* The fetch of the current run raised or returned an empty price series.
FetchFailed(s) ==
    \/ exc[s] = "FetchError"
    \/ pc[s] \notin {"idle", "fetch"} /\ ticker_symbol[s] # "" /\ stock_df[s] = <<>>

\* C6: in a request whose fetch fails no dashboard element is rendered at
\* any step, and the request ends with exactly one error message, which
\* names the requested ticker.
C6_FetchFailureOneErrorNoRendering ==
    \A s \in Sessions :
        /\ pc[s] \in {"idle", "fetch"} => rendered[s] = <<>> /\ errors[s] = <<>>
        /\ FetchFailed(s) =>
            /\ rendered[s] = <<>>
            /\ Len(errors[s]) <= 1
            /\ pc[s] = "done" =>
                /\ Len(errors[s]) = 1
                /\ errors[s][1].ticker = ticker_symbol[s]
                /\ errors[s][1] = ErrorMessage(ticker_symbol[s])
            /\ pc[s] # "done" => errors[s] = <<>>

C6_Witness ==
    \E s \in Sessions :
        /\ pc[s] = "done"
        /\ exc[s] = "LookupError"
        /\ stock_df[s] = <<>>
        /\ stock_news[s] # <<>>
        /\ ticker_symbol[s] = "XXXX"
        /\ Len(errors[s]) = 1

\* C7: for a non-empty news list the frame returned has one row per item,
\* in input order; row i holds item i's title and link (the empty string
\* for a missing one) and the polarity the scoring capability gave the title.
C7_OneRecordPerItemInOrder ==
    \A s \in Sessions :
        Aggregated(s) /\ stock_news[s] # <<>> =>
            /\ Len(news_df[s].rows) = Len(stock_news[s])
            /\ \A i \in DOMAIN stock_news[s] :
                /\ news_df[s].rows[i].Title = TitleOf(stock_news[s][i])
                /\ news_df[s].rows[i].Link = LinkOf(stock_news[s][i])
                /\ news_df[s].rows[i].Score =
                        scorer[TitleOf(stock_news[s][i])].polarity

C7_Witness ==
    \E s \in Sessions :
        /\ Aggregated(s)
        /\ Len(stock_news[s]) >= 2
        /\ "title" \notin DOMAIN stock_news[s][1]
        /\ "link" \in DOMAIN stock_news[s][2]
        /\ news_df[s].rows[1].Title = ""
        /\ news_df[s].rows[2].Link = "u"

\* C8: when every polarity the scoring capability returns lies in [-1, 1],
\* the average returned lies in [-1, 1], the empty list included.
C8_AverageInRange ==
    (\A t \in Titles : Abs(scorer[t].polarity) <= One) =>
        \A s \in Sessions : Aggregated(s) => Abs(avg_score[s]) <= One

C8_Witness ==
    \E s \in Sessions :
        /\ Aggregated(s)
        /\ Len(stock_news[s]) >= 2
        /\ avg_score[s] = One

\* C9: two aggregation calls on the same news list give the same average,
\* label and frame, whatever other calls the sessions ran before them or
\* run interleaved with them.
C9_SameInputSameResult ==
    \A s1, s2 \in Sessions :
        Aggregated(s1) /\ Aggregated(s2) /\ stock_news[s1] = stock_news[s2] =>
            /\ avg_score[s1] = avg_score[s2]
            /\ news_df[s1] = news_df[s2]
            /\ sentiment_label[s1] # "" /\ sentiment_label[s2] # "" =>
                    sentiment_label[s1] = sentiment_label[s2]

C9_Witness ==
    /\ Aggregated("s1") /\ Aggregated("s2")
    /\ stock_news["s1"] = stock_news["s2"]
    /\ Len(stock_news["s1"]) >= 2
    /\ pc["s1"] = "done" /\ pc["s2"] = "sentiment_metric"
    /\ sentiment_label["s1"] # ""

\* C10: aggregating any permutation of the news list gives the same average
\* (compared within the floating-point tolerance of two means) and the same
\* label.
C10_OrderIrrelevant ==
    \A s \in Sessions :
        Aggregated(s) /\ stock_news[s] # <<>> =>
            \A news \in Permuted(stock_news[s]) :
                /\ Abs(Mean(ScoresOf(news), sumAlgo) - avg_score[s])
                        <= 2 * Tolerance(Len(news))
                /\ SentimentLabel(Mean(ScoresOf(news), sumAlgo))
                        = SentimentLabel(avg_score[s])

====
